---- MODULE Spec2Model ----
(***************************************************************************)
(* Model of src/app.py (Ficha Territorial): the text normaliser norm_text, *)
(* the memoised table loader read_named_table, the aggregator top_by_sum   *)
(* and the module-level department filter block.                           *)
(*                                                                         *)
(* Text is a sequence of character tokens (TLC strings are atomic):        *)
(*   "a" "b"          lower-case ASCII letters                             *)
(*   "A" "B"          upper-case ASCII letters                             *)
(*   "a_acute"        U+00E1, "A_acute" U+00C1 (precomposed)               *)
(*   "acute"          U+0301 combining acute accent (category Mn)          *)
(*   "1"              an ASCII digit                                       *)
(*   "sp"             U+0020, "tab" U+0009 (whitespace other than space)   *)
(*   "dot" "lpar" "rpar"   the punctuation . ( )                           *)
(* Python's None is the one-token sequence NoneVal, which is no text.      *)
(***************************************************************************)
EXTENDS Integers, Sequences, FiniteSets, TLC

VARIABLES
  \* norm_text applied once and twice
  nx, ny, nz, npc,
  \* top_by_sum
  tdf, tn, top, tpc,
  \* read_named_table under st.cache_data
  wb, cache, opens, firstRes, handed, lastCall,
  \* the module-level script: tables as held by the running script
  infogeneral, ciclope, proyectos, colcol, contrapartidas,
  loaded, dept, info, cic_dept, proj_dept, colcol_dept, contr_dept, status

normVars == <<nx, ny, nz, npc>>
topVars == <<tdf, tn, top, tpc>>
cacheVars == <<wb, cache, opens, firstRes, handed, lastCall>>
appVars == <<infogeneral, ciclope, proyectos, colcol, contrapartidas,
             loaded, dept, info, cic_dept, proj_dept, colcol_dept, contr_dept, status>>
vars == <<normVars, topVars, cacheVars, appVars>>

NoneVal == <<"NONE_VALUE">>

(***************************************************************************)
(* Bounds                                                                  *)
(***************************************************************************)
MaxLen == 3

(***************************************************************************)
(* norm_text, src/app.py:12-22                                             *)
(***************************************************************************)
Whitespace == {"sp", "tab"}
AsciiUpper == {"A", "B"}
AsciiDigit == {"1"}
Alphabet == {"a", "A", "a_acute", "acute", "1", "sp", "tab", "dot", "lpar", "B"}

\* str.upper() on one character
UpperChar(c) ==
  CASE c = "a" -> "A"
    [] c = "b" -> "B"
    [] c = "a_acute" -> "A_acute"
    [] OTHER -> c

Upper(s) == [i \in 1..Len(s) |-> UpperChar(s[i])]

\* unicodedata.normalize("NFD", .) on one character: canonical decomposition
DecomposeChar(c) ==
  CASE c = "A_acute" -> <<"A", "acute">>
    [] c = "a_acute" -> <<"a", "acute">>
    [] OTHER -> <<c>>

RECURSIVE NFD(_)
NFD(s) == IF s = <<>> THEN <<>> ELSE DecomposeChar(Head(s)) \o NFD(Tail(s))

\* unicodedata.category(c) == "Mn"
IsMn(c) == c = "acute"

StripMarks(s) == SelectSeq(s, LAMBDA c : ~IsMn(c))

RECURSIVE LStrip(_)
LStrip(s) == IF s # <<>> /\ Head(s) \in Whitespace THEN LStrip(Tail(s)) ELSE s

RECURSIVE RStrip(_)
RStrip(s) ==
  IF s # <<>> /\ s[Len(s)] \in Whitespace THEN RStrip(SubSeq(s, 1, Len(s) - 1)) ELSE s

\* str.strip()
Strip(s) == RStrip(LStrip(s))

\* re.sub(r"[^A-Z0-9\s]", " ", s)
SubNonAlnum(s) ==
  [i \in 1..Len(s) |->
     IF s[i] \in AsciiUpper \cup AsciiDigit \cup Whitespace THEN s[i] ELSE "sp"]

\* re.sub(r"\s+", " ", s)
RECURSIVE CollapseWs(_)
CollapseWs(s) ==
  IF s = <<>> THEN <<>>
  ELSE IF Head(s) \in Whitespace
       THEN <<"sp">> \o CollapseWs(LStrip(s))
       ELSE <<Head(s)>> \o CollapseWs(Tail(s))

norm_text_KeepPunct(x) ==
  IF x = NoneVal THEN <<>>
  ELSE Strip(CollapseWs(StripMarks(NFD(Upper(Strip(x))))))

norm_text_NoFinalStrip(x) ==
  IF x = NoneVal THEN <<>>
  ELSE CollapseWs(SubNonAlnum(StripMarks(NFD(Upper(Strip(x))))))

norm_text(x) ==
  IF x = NoneVal THEN <<>>
  ELSE Strip(CollapseWs(SubNonAlnum(StripMarks(NFD(Upper(Strip(x)))))))

RECURSIVE TextsOfLen(_)
TextsOfLen(k) ==
  IF k = 0 THEN {<<>>}
  ELSE {<<c>> \o t : c \in Alphabet, t \in TextsOfLen(k - 1)}

NormInputs == {NoneVal} \cup UNION {TextsOfLen(k) : k \in 0..MaxLen}

NormIdle ==
  /\ nx = NoneVal /\ ny = NoneVal /\ nz = NoneVal /\ npc = "idle"

InitNorm ==
  /\ nx \in NormInputs
  /\ ny = NoneVal
  /\ nz = NoneVal
  /\ npc = "in"

\* y = norm_text(x)
NormOnce ==
  /\ npc = "in"
  /\ ny' = norm_text(nx)
  /\ npc' = "once"
  /\ UNCHANGED <<nx, nz>>

\* z = norm_text(y)
NormTwice ==
  /\ npc = "once"
  /\ nz' = norm_text(ny)
  /\ npc' = "twice"
  /\ UNCHANGED <<nx, ny>>

(***************************************************************************)
(* top_by_sum, src/app.py:81-90                                            *)
(* A frame is [cols, rows]; a row is [g |-> group key, v |-> value].       *)
(* Group keys are 1..NumKeys and the null key NullKey (NaN/None).          *)
(***************************************************************************)
MaxRows == 3
NumKeys == 2
MaxVal == 1
MaxN == 3

NullKey == 0
GroupKeys == 1..NumKeys \cup {NullKey}

\* the order groupby(sort=True, dropna=False) puts keys in: ascending, null last
KeyBefore(a, b) == a # b /\ (b = NullKey \/ (a # NullKey /\ a < b))

DistinctKeys_DropNa(rows) == {rows[i].g : i \in 1..Len(rows)} \ {NullKey}

\* the distinct values of group_col, null included (dropna=False)
DistinctKeys(rows) == {rows[i].g : i \in 1..Len(rows)}

RECURSIVE SumOf(_, _)
\* .sum() of value_col over the rows of group k
SumOf(rows, k) ==
  IF rows = <<>> THEN 0
  ELSE (IF Head(rows).g = k THEN Head(rows).v ELSE 0) + SumOf(Tail(rows), k)

RECURSIVE SortedKeys(_)
SortedKeys(ks) ==
  IF ks = {} THEN <<>>
  ELSE LET m == CHOOSE k \in ks : \A o \in ks : o = k \/ KeyBefore(k, o)
       IN <<m>> \o SortedKeys(ks \ {m})

\* df.groupby(group_col, dropna=False)[value_col].sum(): one entry per key, in key order
GroupBySum(rows) ==
  LET ks == SortedKeys(DistinctKeys(rows))
  IN [i \in 1..Len(ks) |-> [g |-> ks[i], v |-> SumOf(rows, ks[i])]]

Perms(k) == {p \in [1..k -> 1..k] : \A i, j \in 1..k : p[i] = p[j] => i = j}

SortValuesAsc(series) ==
  {[i \in 1..Len(series) |-> series[p[i]]] : p \in
     {q \in Perms(Len(series)) :
        \A i, j \in 1..Len(series) : i < j => series[q[i]].v <= series[q[j]].v}}

\* .sort_values(ascending=False): the default kind ("quicksort") is not a stable
\* sort, so entries with equal sums may come out in any relative order
SortValuesDesc(series) ==
  {[i \in 1..Len(series) |-> series[p[i]]] : p \in
     {q \in Perms(Len(series)) :
        \A i, j \in 1..Len(series) : i < j => series[q[i]].v >= series[q[j]].v}}

\* .head(n), n >= 0
HeadN(s, n) == SubSeq(s, 1, IF n < Len(s) THEN n ELSE Len(s))

\* the results top_by_sum(df, "g", "v", n) can return
top_by_sum(df, n) ==
  IF df.rows = <<>> \/ "g" \notin df.cols \/ "v" \notin df.cols
  THEN {<<>>}
  ELSE {HeadN(s, n) : s \in SortValuesDesc(GroupBySum(df.rows))}

RECURSIVE RowsOfLen(_)
RowsOfLen(k) ==
  IF k = 0 THEN {<<>>}
  ELSE {<<[g |-> key, v |-> val]>> \o t :
          key \in GroupKeys, val \in 0..MaxVal, t \in RowsOfLen(k - 1)}

TopFrames ==
  {[cols |-> {"g", "v"}, rows |-> r] : r \in UNION {RowsOfLen(k) : k \in 0..MaxRows}}
  \cup {[cols |-> c, rows |-> <<[g |-> 1, v |-> 1]>>] : c \in {{"g"}, {"v"}}}

TopIdle ==
  /\ tdf = [cols |-> {}, rows |-> <<>>] /\ tn = 0 /\ top = <<>> /\ tpc = "idle"

InitTop ==
  /\ tdf \in TopFrames
  /\ tn \in 0..MaxN
  /\ top = <<>>
  /\ tpc = "in"

\* top = top_by_sum(df, "g", "v", n)
TopBySum ==
  /\ tpc = "in"
  /\ top' \in top_by_sum(tdf, tn)
  /\ tpc' = "out"
  /\ UNCHANGED <<tdf, tn>>

(***************************************************************************)
(* read_named_table under @st.cache_data, src/app.py:34-54                 *)
(* A table value is [data, touched]: data names what was read from the     *)
(* workbook, touched says whether a caller has modified the object since.  *)
(***************************************************************************)
NumContents == 2
MaxCalls == 4

FILE == "Ficha territorial.xlsm"
TableNames == {"infogeneral", "ciclope"}
Keys == {<<FILE, t>> : t \in TableNames}

NoTable == [data |-> 0, touched |-> FALSE]
Contents == {[data |-> d, touched |-> FALSE] : d \in 1..NumContents}
KeyErrorRes == [data |-> -1, touched |-> FALSE]

\* what a cache hit hands to the caller: a fresh copy unpickled from the stored bytes
CachedValue_Alias(k) == handed[k]

CachedValue(k) == cache[k]

CacheIdle ==
  /\ wb = <<>> /\ cache = <<>> /\ opens = <<>> /\ firstRes = <<>> /\ handed = <<>>
  /\ lastCall = <<>>

InitCache ==
  /\ wb \in [Keys -> Contents \cup {NoTable}]
  /\ cache = [k \in Keys |-> NoTable]
  /\ opens = [k \in Keys |-> 0]
  /\ firstRes = [k \in Keys |-> NoTable]
  /\ handed = [k \in Keys |-> NoTable]
  /\ lastCall = [calls |-> 0, key |-> <<FILE, "infogeneral">>, res |-> NoTable, opened |-> FALSE]

\* read_named_table(file_path, table_name), the decorator included: a hit returns the
\* stored value; a miss runs the body (load_workbook, the scan of the worksheets) and
\* stores what it returns; a KeyError raised by the body is stored nowhere
read_named_table(k) ==
  /\ lastCall.calls < MaxCalls
  /\ IF cache[k] # NoTable
     THEN /\ lastCall' = [calls |-> lastCall.calls + 1, key |-> k,
                          res |-> CachedValue(k), opened |-> FALSE]
          /\ UNCHANGED <<cache, opens, firstRes, handed>>
     ELSE /\ opens' = [opens EXCEPT ![k] = @ + 1]
          /\ IF wb[k] # NoTable
             THEN /\ cache' = [cache EXCEPT ![k] = wb[k]]
                  /\ handed' = [handed EXCEPT ![k] = wb[k]]
                  /\ firstRes' = [firstRes EXCEPT ![k] = IF @ = NoTable THEN wb[k] ELSE @]
                  /\ lastCall' = [calls |-> lastCall.calls + 1, key |-> k,
                                  res |-> wb[k], opened |-> TRUE]
             ELSE /\ lastCall' = [calls |-> lastCall.calls + 1, key |-> k,
                                  res |-> KeyErrorRes, opened |-> TRUE]
                  /\ UNCHANGED <<cache, firstRes, handed>>
  /\ UNCHANGED wb

\* the workbook on disk is replaced: the table is redefined, added or removed
EditWorkbook(k, c) ==
  /\ c # wb[k]
  /\ wb' = [wb EXCEPT ![k] = c]
  /\ UNCHANGED <<cache, opens, firstRes, handed, lastCall>>

\* the caller changes the frame the computing call handed it (load_data's
\* df[c] = df[c].astype(str).str.strip(), src/app.py:67-70)
CallerModifies(k) ==
  /\ handed[k] # NoTable
  /\ ~handed[k].touched
  /\ handed' = [handed EXCEPT ![k] = [@ EXCEPT !.touched = TRUE]]
  /\ UNCHANGED <<wb, cache, opens, firstRes, lastCall>>

(***************************************************************************)
(* The module-level script, src/app.py:97-139                              *)
(* A frame is [cols, index, rows]: index holds the row labels (the source  *)
(* positions, which boolean indexing keeps), rows[i] maps column -> cell.  *)
(* Cells are texts: load_data has made every object column a stripped str. *)
(***************************************************************************)
MaxInfoRows == 2
MaxCicRows == 2
MaxProjRows == 1
MaxColcolRows == 1

DEPT_COL_INFO == "Departamento"
\* the three colcol columns of lines 118-120 (the first ends in an accented O)
COL_DESARROLLO == "DEPARTAMENTO EN EL QUE SE DESARROLLO"
COL_PARTICIPANTES == "DEPARTAMENTOS PARTICIPANTES"
COL_MAY == "DEPARTAMENTOS MAY"
ColcolCols == {COL_DESARROLLO, COL_PARTICIPANTES, COL_MAY}

Unset == [cols |-> {"<unset>"}, index |-> <<>>, rows |-> <<>>]

\* pd.DataFrame with one text column
OneColumn(col, texts) ==
  [cols |-> {col},
   index |-> [i \in 1..Len(texts) |-> i],
   rows |-> [i \in 1..Len(texts) |-> [c \in {col} |-> texts[i]]]]

RECURSIVE Ascending(_)
Ascending(S) ==
  IF S = {} THEN <<>>
  ELSE LET m == CHOOSE x \in S : \A y \in S : x <= y
       IN <<m>> \o Ascending(S \ {m})

\* df[mask]: the rows at the positions the boolean mask holds, in frame order
Filter(df, mask) ==
  LET pos == Ascending(mask)
  IN [cols |-> df.cols,
      index |-> [i \in 1..Len(pos) |-> df.index[pos[i]]],
      rows |-> [i \in 1..Len(pos) |-> df.rows[pos[i]]]]

\* df.head(1)
Head1(df) == Filter(df, IF df.rows = <<>> THEN {} ELSE {1})

AddDeptNorm_InPlace(df, src) ==
  [df EXCEPT
     !.cols = @ \cup {"DEPT_NORM"},
     !.rows = [i \in 1..Len(df.rows) |->
                 [c \in df.cols \cup {"DEPT_NORM"} |->
                    IF c \in {"DEPT_NORM", src} THEN norm_text(df.rows[i][src])
                    ELSE df.rows[i][c]]]]

AddDeptNorm_Raw(df, src) ==
  [df EXCEPT
     !.cols = @ \cup {"DEPT_NORM"},
     !.rows = [i \in 1..Len(df.rows) |->
                 [c \in df.cols \cup {"DEPT_NORM"} |->
                    IF c = "DEPT_NORM" THEN df.rows[i][src] ELSE df.rows[i][c]]]]

\* df["DEPT_NORM"] = df[src].map(norm_text): the frame itself gets the column
AddDeptNorm(df, src) ==
  [df EXCEPT
     !.cols = @ \cup {"DEPT_NORM"},
     !.rows = [i \in 1..Len(df.rows) |->
                 [c \in df.cols \cup {"DEPT_NORM"} |->
                    IF c = "DEPT_NORM" THEN norm_text(df.rows[i][src]) ELSE df.rows[i][c]]]]

dept_norm_Raw(d) == d

\* dept_norm = norm_text(dept)
dept_norm(d) == norm_text(d)

\* df["DEPT_NORM"] == dept_norm
DeptNormMask(df, d) == {i \in 1..Len(df.rows) : df.rows[i]["DEPT_NORM"] = dept_norm(d)}

\* infogeneral[DEPT_COL_INFO].dropna().unique(): the labels the selectbox offers
\* (sorted() only fixes the order they are listed in)
depts(ig) == {ig.rows[i][DEPT_COL_INFO] : i \in 1..Len(ig.rows)}

\* st.selectbox(label, options): one of the options, None when there is none
Selectable(ig) == IF depts(ig) = {} THEN {NoneVal} ELSE depts(ig)

RECURSIVE ParenDepthOk(_, _)
\* re.compile(pat) accepts the parentheses: none closes what was not opened, none stays open
ParenDepthOk(p, depth) ==
  IF p = <<>> THEN depth = 0
  ELSE IF Head(p) = "lpar" THEN ParenDepthOk(Tail(p), depth + 1)
  ELSE IF Head(p) = "rpar" THEN depth > 0 /\ ParenDepthOk(Tail(p), depth - 1)
  ELSE ParenDepthOk(Tail(p), depth)

\* re.compile(pat) succeeds (pat a str; None is a TypeError)
RegexCompiles(p) == p # NoneVal /\ ParenDepthOk(p, 0)

\* the pattern as a sequence of one-character atoms: a group only brackets them
Atoms(p) == SelectSeq(p, LAMBDA c : c \notin {"lpar", "rpar"})

\* re.search(pat, text): "." matches any character, every other atom itself
RegexSearch(p, t) ==
  LET a == Atoms(p)
  IN \E i \in 0..(Len(t) - Len(a)) :
       \A k \in 1..Len(a) : a[k] = "dot" \/ a[k] = t[i + k]

\* Series.str.contains(pat, na=False): regex=True is the default
StrContains(t, p) == RegexSearch(p, t)

\* colcol.get(col, "") is the str "" when the column is missing, and "".astype
\* raises AttributeError; str.contains compiles the pattern before it looks at a row
ColcolRaises(df, d) ==
  \/ \E c \in ColcolCols : c \notin df.cols
  \/ ~RegexCompiles(d)

\* the mask of lines 118-120
ColcolMask(df, d) ==
  {i \in 1..Len(df.rows) :
     \/ df.rows[i][COL_DESARROLLO] = d
     \/ StrContains(df.rows[i][COL_PARTICIPANTES], d)
     \/ StrContains(df.rows[i][COL_MAY], d)}

\* lines 123-127
ContrDept(df, d) ==
  IF DEPT_COL_INFO \in df.cols
  THEN Filter(df, {i \in 1..Len(df.rows) : df.rows[i][DEPT_COL_INFO] = d})
  ELSE Filter(df, {})

\* lines 138-139: the script got as far as tab 1 and info.empty holds
notice == status = "ok" /\ info.rows = <<>>

\* line 97: load_data() hands the script its own copies of the cached frames
LoadData ==
  /\ status \in {"ok", "error"}
  /\ infogeneral' = loaded.infogeneral
  /\ ciclope' = loaded.ciclope
  /\ proyectos' = loaded.proyectos
  /\ colcol' = loaded.colcol
  /\ contrapartidas' = loaded.contrapartidas
  /\ status' = "loaded"
  /\ dept' = NoneVal
  /\ info' = Unset /\ cic_dept' = Unset /\ proj_dept' = Unset
  /\ colcol_dept' = Unset /\ contr_dept' = Unset
  /\ UNCHANGED loaded

\* lines 100-127 for the selection d; an exception ends the run where it is raised
FilterByDepartment(d) ==
  /\ status = "loaded"
  /\ d \in Selectable(infogeneral)
  /\ dept' = d
  /\ infogeneral' = AddDeptNorm(infogeneral, DEPT_COL_INFO)
  /\ info' = Head1(Filter(infogeneral', DeptNormMask(infogeneral', d)))
  /\ ciclope' = AddDeptNorm(ciclope, "DEPARTAMENTO")
  /\ proyectos' = AddDeptNorm(proyectos, "DEPARTAMENTO")
  /\ cic_dept' = Filter(ciclope', DeptNormMask(ciclope', d))
  /\ proj_dept' = Filter(proyectos', DeptNormMask(proyectos', d))
  /\ IF ColcolRaises(colcol, d)
     THEN /\ status' = "error"
          /\ colcol_dept' = Unset
          /\ contr_dept' = Unset
     ELSE /\ status' = "ok"
          /\ colcol_dept' = Filter(colcol, ColcolMask(colcol, d))
          /\ contr_dept' = ContrDept(contrapartidas, d)
  /\ UNCHANGED <<colcol, contrapartidas, loaded>>

SeqsUpTo(S, n) == UNION {[1..k -> S] : k \in 0..n}

\* department labels as infogeneral spells them, and as ciclope / proyectos do
InfoLabels == {<<"a">>, <<"a_acute">>, <<"A", "dot", "B">>, <<"A", "B">>}
CicLabels == {<<"A">>, <<"A", "sp", "sp", "B">>, <<"A", "B">>}
\* labels and colcol cells with and without the characters . ( )
ColLabels == {<<"a">>, <<"a", "dot", "b">>, <<"lpar", "a">>, <<"lpar", "a", "rpar">>}
ColCells == {<<"a">>, <<"a", "1", "b">>, <<"b", "lpar", "a", "rpar">>, <<"B">>}

ColcolFrame(cs, rs) ==
  [cols |-> cs, index |-> [i \in 1..Len(rs) |-> i], rows |-> rs]

ColcolFrames ==
  {ColcolFrame(cs, rs) : cs \in SUBSET ColcolCols,
                          rs \in {<<>>}} \cup
  UNION {{ColcolFrame(cs, rs) : rs \in SeqsUpTo([cs -> ColCells], MaxColcolRows)} :
           cs \in SUBSET ColcolCols}

\* a complete colcol table and a contrapartidas table, the same in every workbook
\* that differs in the other three tables
ColcolSample == ColcolFrame(ColcolCols, <<[c \in ColcolCols |-> <<"a">>]>>)

ContrSample == OneColumn(DEPT_COL_INFO, <<<<"a">>, <<"A", "B">>>>)

\* contrapartidas with and without its department column
ContrSamples == {ContrSample, OneColumn("Valor", <<<<"1">>>>)}

AppStart(l) ==
  /\ loaded = l
  /\ infogeneral = l.infogeneral
  /\ ciclope = l.ciclope
  /\ proyectos = l.proyectos
  /\ colcol = l.colcol
  /\ contrapartidas = l.contrapartidas
  /\ status = "loaded"
  /\ dept = NoneVal
  /\ info = Unset /\ cic_dept = Unset /\ proj_dept = Unset
  /\ colcol_dept = Unset /\ contr_dept = Unset

\* workbooks that differ in infogeneral, ciclope and proyectos
InitAppFilter ==
  \E ti \in SeqsUpTo(InfoLabels, MaxInfoRows), tc \in SeqsUpTo(CicLabels, MaxCicRows),
     tp \in SeqsUpTo(CicLabels, MaxProjRows) :
    AppStart([infogeneral |-> OneColumn(DEPT_COL_INFO, ti),
              ciclope |-> OneColumn("DEPARTAMENTO", tc),
              proyectos |-> OneColumn("DEPARTAMENTO", tp),
              colcol |-> ColcolSample,
              contrapartidas |-> ContrSample])

\* workbooks that differ in colcol and in the one label infogeneral offers
InitAppColcol ==
  \E l \in ColLabels, cc \in ColcolFrames, ct \in ContrSamples :
    AppStart([infogeneral |-> OneColumn(DEPT_COL_INFO, <<l>>),
              ciclope |-> OneColumn("DEPARTAMENTO", <<<<"A">>>>),
              proyectos |-> OneColumn("DEPARTAMENTO", <<<<"A">>>>),
              colcol |-> cc,
              contrapartidas |-> ct])

AppIdle ==
  /\ loaded = <<>>
  /\ infogeneral = Unset /\ ciclope = Unset /\ proyectos = Unset
  /\ colcol = Unset /\ contrapartidas = Unset
  /\ status = "idle"
  /\ dept = NoneVal
  /\ info = Unset /\ cic_dept = Unset /\ proj_dept = Unset
  /\ colcol_dept = Unset /\ contr_dept = Unset

(***************************************************************************)
(* Specifications                                                          *)
(***************************************************************************)
Init == (InitAppFilter \/ InitAppColcol) /\ NormIdle /\ TopIdle /\ CacheIdle

Next ==
  \/ LoadData /\ UNCHANGED <<normVars, topVars, cacheVars>>
  \/ \E d \in Selectable(infogeneral) :
       FilterByDepartment(d) /\ UNCHANGED <<normVars, topVars, cacheVars>>

Spec == Init /\ [][Next]_vars

NextNorm ==
  \/ NormOnce /\ UNCHANGED <<topVars, cacheVars, appVars>>
  \/ NormTwice /\ UNCHANGED <<topVars, cacheVars, appVars>>

InitSpecNorm == InitNorm /\ TopIdle /\ CacheIdle /\ AppIdle

SpecNorm == InitSpecNorm /\ [][NextNorm]_vars

NextTop == TopBySum /\ UNCHANGED <<normVars, cacheVars, appVars>>

InitSpecTop == InitTop /\ NormIdle /\ CacheIdle /\ AppIdle

SpecTop == InitSpecTop /\ [][NextTop]_vars

NextCache ==
  \/ \E k \in Keys : read_named_table(k) /\ UNCHANGED <<normVars, topVars, appVars>>
  \/ \E k \in Keys, c \in Contents \cup {NoTable} :
       EditWorkbook(k, c) /\ UNCHANGED <<normVars, topVars, appVars>>
  \/ \E k \in Keys : CallerModifies(k) /\ UNCHANGED <<normVars, topVars, appVars>>

InitSpecCache == InitCache /\ NormIdle /\ TopIdle /\ AppIdle

SpecCache == InitSpecCache /\ [][NextCache]_vars

(***************************************************************************)
(* Properties                                                              *)
(***************************************************************************)
Ran == status \in {"ok", "error"}

\* t has p as a literal substring
Contains(t, p) == \E i \in 0..(Len(t) - Len(p)) : SubSeq(t, i + 1, i + Len(p)) = p

\* the position at which group k first appears in rows
FirstPos(rows, k) == CHOOSE i \in 1..Len(rows) : rows[i].g = k /\ \A j \in 1..(i - 1) : rows[j].g # k

InTop(k) == \E j \in 1..Len(top) : top[j].g = k

TopApplies == tpc = "out" /\ tdf.rows # <<>> /\ {"g", "v"} \subseteq tdf.cols

\* C1 (as claimed): with a colcol column missing, and a selection that is a valid
\* pattern, computing the colcol subset does not fail and the subset is produced.
C1_MissingColumnNoFailure ==
  (Ran /\ ColcolCols \ loaded.colcol.cols # {} /\ RegexCompiles(dept))
    => (status = "ok" /\ colcol_dept # Unset)

\* C2 (as claimed): with the three columns present, the colcol subset is exactly the
\* rows whose "developed in" cell equals the label or whose "participating" or "MAY"
\* cell has the label as a literal substring, for every label.
C2_LiteralSubstring ==
  (Ran /\ ColcolCols \subseteq loaded.colcol.cols /\ dept # NoneVal)
    => /\ status = "ok"
       /\ colcol_dept.index =
            Ascending({i \in 1..Len(loaded.colcol.rows) :
                         \/ loaded.colcol.rows[i][COL_DESARROLLO] = dept
                         \/ Contains(loaded.colcol.rows[i][COL_PARTICIPANTES], dept)
                         \/ Contains(loaded.colcol.rows[i][COL_MAY], dept)})

\* C3: the ciclope and project subsets are exactly the rows whose department,
\* normalised, equals the normalised selection, in source row order.
C3_NormalisedEquality ==
  Ran =>
    /\ cic_dept.index =
         Ascending({i \in 1..Len(loaded.ciclope.rows) :
                      norm_text(loaded.ciclope.rows[i]["DEPARTAMENTO"]) = norm_text(dept)})
    /\ \A i \in 1..Len(cic_dept.index) :
         cic_dept.rows[i]["DEPARTAMENTO"] =
           loaded.ciclope.rows[cic_dept.index[i]]["DEPARTAMENTO"]
    /\ proj_dept.index =
         Ascending({i \in 1..Len(loaded.proyectos.rows) :
                      norm_text(loaded.proyectos.rows[i]["DEPARTAMENTO"]) = norm_text(dept)})
    /\ \A i \in 1..Len(proj_dept.index) :
         proj_dept.rows[i]["DEPARTAMENTO"] =
           loaded.proyectos.rows[proj_dept.index[i]]["DEPARTAMENTO"]

C3_Witness ==
  /\ status = "ok"
  /\ dept = <<"A", "dot", "B">>
  /\ Len(loaded.ciclope.rows) = 2
  /\ loaded.ciclope.rows[1]["DEPARTAMENTO"] = <<"A", "B">>
  /\ loaded.ciclope.rows[2]["DEPARTAMENTO"] = <<"A", "sp", "sp", "B">>
  /\ cic_dept.index = <<2>>

SameButDeptNorm(now, was) ==
  /\ now.cols = was.cols \cup {"DEPT_NORM"}
  /\ now.index = was.index
  /\ Len(now.rows) = Len(was.rows)
  /\ \A i \in 1..Len(was.rows) :
       \A c \in was.cols \ {"DEPT_NORM"} : now.rows[i][c] = was.rows[i][c]

C5_TopBySum ==
  TopApplies =>
    LET ks == {tdf.rows[i].g : i \in 1..Len(tdf.rows)}
    IN /\ Len(top) = (IF tn < Cardinality(ks) THEN tn ELSE Cardinality(ks))
       /\ \A i \in 1..Len(top) : top[i].g \in ks /\ top[i].v = SumOf(tdf.rows, top[i].g)
       /\ \A i, j \in 1..Len(top) : i # j => top[i].g # top[j].g
       /\ \A i, j \in 1..Len(top) : i < j => top[i].v >= top[j].v
       /\ \A i \in 1..Len(top) : \A k \in ks : ~InTop(k) => top[i].v >= SumOf(tdf.rows, k)

C5_Witness ==
  /\ tpc = "out"
  /\ Cardinality(DistinctKeys(tdf.rows)) = 3
  /\ tn = 2
  /\ Len(top) = 2
  /\ top[1].g = NullKey
  /\ top[2].v = 1
  /\ \E k \in DistinctKeys(tdf.rows) : ~InTop(k) /\ SumOf(tdf.rows, k) = 0

C7_NormIdempotent == npc = "twice" => nz = ny

C7_Witness ==
  /\ npc = "twice"
  /\ nx = <<"a", "dot", "B">>
  /\ ny = <<"A", "sp", "B">>
  /\ nz = <<"A", "sp", "B">>

\* C8 (as claimed): the workbook is opened at most once for each (path, table name),
\* and a later call returns what the first call returned.
C8_AtMostOneRead ==
  \A k \in Keys :
    /\ opens[k] <= 1
    /\ (lastCall.calls > 0 /\ lastCall.key = k /\ firstRes[k] # NoTable)
         => lastCall.res = firstRes[k]

\* C8 (amended): once a call for a (path, table name) has returned a table, the
\* workbook is never opened for that pair again and every later call with the pair
\* returns a table equal to that first result, whatever happened to the file or to
\* the frame handed out; a call that raises KeyError stores nothing.
C8_ReadOncePerReturnedTable ==
  [][\A k \in Keys :
       /\ firstRes[k] # NoTable =>
            /\ opens'[k] = opens[k]
            /\ (lastCall'.calls # lastCall.calls /\ lastCall'.key = k)
                 => (lastCall'.res = firstRes[k] /\ ~lastCall'.opened)
       /\ (lastCall'.calls # lastCall.calls /\ lastCall'.key = k
             /\ lastCall'.res = KeyErrorRes) => cache'[k] = NoTable]_vars

C8_Witness ==
  \E k \in Keys :
    /\ lastCall.key = k
    /\ ~lastCall.opened
    /\ lastCall.res = firstRes[k]
    /\ lastCall.res \in Contents
    /\ wb[k] # firstRes[k]
    /\ handed[k].touched

\* C9 (as claimed): groups with equal sums are ordered, and cut at n, by the
\* position at which each first appears in the input.
C9_TiesByFirstAppearance ==
  TopApplies =>
    /\ \A i, j \in 1..Len(top) :
         (i < j /\ top[i].v = top[j].v)
           => FirstPos(tdf.rows, top[i].g) < FirstPos(tdf.rows, top[j].g)
    /\ \A i \in 1..Len(top) : \A k \in DistinctKeys(tdf.rows) :
         (~InTop(k) /\ SumOf(tdf.rows, k) = top[i].v)
           => FirstPos(tdf.rows, top[i].g) < FirstPos(tdf.rows, k)

\* C9 (amended): only strictly different sums fix the order and the cut: a group
\* with a strictly larger sum than a returned group is returned too, earlier in the
\* list; groups with equal sums are not ordered by first appearance.
C9_StrictOrderOnly ==
  TopApplies =>
    \A i \in 1..Len(top) : \A k \in DistinctKeys(tdf.rows) :
      SumOf(tdf.rows, k) > top[i].v => \E j \in 1..(i - 1) : top[j].g = k

C9_Witness ==
  /\ tpc = "out"
  /\ tdf.rows = <<[g |-> 2, v |-> 1], [g |-> 1, v |-> 1], [g |-> NullKey, v |-> 0]>>
  /\ tn = 2
  /\ top = <<[g |-> 1, v |-> 1], [g |-> 2, v |-> 1]>>

\* C10: every label the selector offers finds a general-info row, the first
\* infogeneral row whose normalised department equals the normalised selection; the
\* lookup comes back empty only when infogeneral offers no department.
C10_OfferedLabelFound ==
  Ran =>
    /\ dept # NoneVal =>
         /\ dept \in depts(loaded.infogeneral)
         /\ info.index =
              <<CHOOSE i \in 1..Len(loaded.infogeneral.rows) :
                  /\ norm_text(loaded.infogeneral.rows[i][DEPT_COL_INFO]) = norm_text(dept)
                  /\ \A j \in 1..(i - 1) :
                       norm_text(loaded.infogeneral.rows[j][DEPT_COL_INFO]) # norm_text(dept)>>
         /\ info.rows[1][DEPT_COL_INFO] = loaded.infogeneral.rows[info.index[1]][DEPT_COL_INFO]
    /\ info.rows = <<>> => depts(loaded.infogeneral) = {}
    /\ notice => depts(loaded.infogeneral) = {}

C10_Witness ==
  /\ status = "ok"
  /\ dept = <<"a_acute">>
  /\ Len(loaded.infogeneral.rows) = 2
  /\ loaded.infogeneral.rows[1][DEPT_COL_INFO] = <<"a">>
  /\ info.index = <<1>>

====
